---------------------------- MODULE Spec2Model ----------------------------
(***************************************************************************)
(* Model of hyperspace_explorer: the class registry built by               *)
(* RegisteredAbstractMeta, fill_in_defaults, update_config and from_config *)
(* (configurables.py), unique_suffixes (utils.py) and the worker loop      *)
(* process_queue (hyperspace_worker.py).                                   *)
(*                                                                         *)
(* Python objects live on a heap: a sequence of containers, addressed by   *)
(* their index.  A value is a scalar [s |-> "..."] or a reference          *)
(* [ref |-> id] to a container; a container is a dict (items: a function   *)
(* from string keys to values) or a list (items: a sequence of values).    *)
(* Two names alias when they hold the same reference.  A document as a     *)
(* plain value (what == compares in Python) is a tree: [s |-> "..."],      *)
(* [d |-> function from keys to trees] or [l |-> sequence of trees].       *)
(***************************************************************************)
EXTENDS Integers, Sequences, FiniteSets, TLC

VARIABLES
    factories,          \* configurables.py:6, kind name -> class id
    classes,            \* every class object created so far, by id
    subclass_registry,  \* class id -> its own subclass_registry dict
    last,               \* the last class statement and how it ended
    heap,               \* the containers (dicts and lists) allocated so far
    pc,                 \* position of the calling program
    call,               \* the call in progress or finished: name and arguments
    ret,                \* what the call returned (value, error flag, depth)
    pre,                \* the heap as it was when the call was entered
    first,              \* result of the first of two chained calls
    locals,             \* local variables of the function that is running
    queue               \* the run queue: its tasks and the worker's record

vars == <<factories, classes, subclass_registry, last, heap, pc, call, ret, pre, first,
          locals, queue>>

CLASS_NAME_FIELD == "className"

-----------------------------------------------------------------------------
(* Values, containers and trees *)

Scalar(x) == [s |-> x]
Ref(i) == [ref |-> i]
IsRef(v) == "ref" \in DOMAIN v
IsDict(h, v) == IsRef(v) /\ h[v.ref].type = "dict"
Items(h, v) == h[v.ref].items
Keys(h, v) == DOMAIN h[v.ref].items

EmptyFn == [x \in {} |-> x]
DictT(f) == [d |-> f]
ListT(q) == [l |-> q]
IsDictT(t) == "d" \in DOMAIN t
IsListT(t) == "l" \in DOMAIN t
IsScalarT(t) == "s" \in DOMAIN t

\* Some enumeration of a finite set.  The loops below treat every key on
\* its own, so the order in which a dict is iterated does not show in the
\* value they build.
RECURSIVE SetToSeq(_)
SetToSeq(S) ==
    IF S = {} THEN <<>>
    ELSE LET x == CHOOSE y \in S : TRUE IN <<x>> \o SetToSeq(S \ {x})

\* A new container holding `items`.
Alloc(h, type, items) ==
    [h |-> Append(h, [type |-> type, items |-> items]), v |-> Ref(Len(h) + 1)]

\* d[k] = v on the container referenced by d: the object is changed in
\* place, every alias sees it.
SetItem(h, d, k, v) ==
    [h EXCEPT ![d.ref].items =
        [x \in DOMAIN h[d.ref].items \cup {k} |->
            IF x = k THEN v ELSE h[d.ref].items[x]]]

\* The document a value stands for, read through the heap.
RECURSIVE Val(_, _)
Val(h, v) ==
    IF ~IsRef(v) THEN v
    ELSE LET it == Items(h, v) IN
         IF h[v.ref].type = "dict"
         THEN DictT([k \in DOMAIN it |-> Val(h, it[k])])
         ELSE ListT([i \in DOMAIN it |-> Val(h, it[i])])

\* A literal: the tree t built from fresh containers.
RECURSIVE Store(_, _)
RECURSIVE StoreItems(_, _, _, _)
StoreItems(h, src, ks, acc) ==
    IF ks = <<>> THEN [h |-> h, items |-> acc]
    ELSE LET k == Head(ks)
             r == Store(h, src[k])
         IN StoreItems(r.h, src, Tail(ks), acc @@ (k :> r.v))
Store(h, t) ==
    IF IsScalarT(t) THEN [h |-> h, v |-> t]
    ELSE LET src == IF IsDictT(t) THEN t.d ELSE t.l
             r == StoreItems(h, src, SetToSeq(DOMAIN src), EmptyFn)
         IN Alloc(r.h, IF IsDictT(t) THEN "dict" ELSE "list", r.items)

\* The containers reachable from a value.
RECURSIVE Reach(_, _)
Reach(h, v) ==
    IF ~IsRef(v) THEN {}
    ELSE {v.ref} \cup UNION {Reach(h, Items(h, v)[k]) : k \in Keys(h, v)}

-----------------------------------------------------------------------------
(* copy.deepcopy and dict.copy *)

\* deepcopy(v): every container reachable from v is rebuilt; scalars are
\* immutable and returned as they are.  (The documents copied here are
\* trees, so deepcopy's memo of shared containers plays no part.)
RECURSIVE deepcopy(_, _)
RECURSIVE deepcopyItems(_, _, _, _)
deepcopyItems(h, src, ks, acc) ==
    IF ks = <<>> THEN [h |-> h, items |-> acc]
    ELSE LET k == Head(ks)
             r == deepcopy(h, src[k])
         IN deepcopyItems(r.h, src, Tail(ks), acc @@ (k :> r.v))
deepcopy(h, v) ==
    IF ~IsRef(v) THEN [h |-> h, v |-> v]
    ELSE LET src == Items(h, v)
             r == deepcopyItems(h, src, SetToSeq(DOMAIN src), EmptyFn)
         IN Alloc(r.h, h[v.ref].type, r.items)

\* d.copy(): one new dict holding the same values (the same references).
ShallowCopy(h, v) == Alloc(h, "dict", Items(h, v))

\* The variants of the first statement of update_config and of
\* fill_in_defaults that work on the argument itself.
NoCopy(h, v) == [h |-> h, v |-> v]

-----------------------------------------------------------------------------
(* update_config, configurables.py:104-132 *)

\* How a call ends: with a value, or with an exception (TypeError, KeyError
\* or AttributeError, all "error" here).
Raise(h) == [h |-> h, v |-> Scalar("<exception>"), err |-> TRUE]
Return(h, v) == [h |-> h, v |-> v, err |-> FALSE]

\* line 117: c1 = deepcopy(c1)
CopyBase(h, c1) == deepcopy(h, c1)

\* The variant of the test that merges whenever both sides are nodes.
MergeTestAlwaysMerge(h, old, v) ==
    IF CLASS_NAME_FIELD \notin Keys(h, v) THEN "merge"
    ELSE IF ~IsDict(h, old) \/ CLASS_NAME_FIELD \notin Keys(h, old) THEN "raise"
    ELSE "merge"

\* The variant of the test that never merges.
MergeTestAlwaysReplace(h, old, v) == "replace"

\* lines 123-126: the test that sends a nested override to the recursive
\* merge.  "raise": c1[k][CLASS_NAME_FIELD] cannot be evaluated (c1[k] is
\* no dict, or a dict without the field).
MergeTest(h, old, v) ==
    IF CLASS_NAME_FIELD \notin Keys(h, v) THEN "merge"
    ELSE IF ~IsDict(h, old) \/ CLASS_NAME_FIELD \notin Keys(h, old) THEN "raise"
    ELSE IF Val(h, Items(h, old)[CLASS_NAME_FIELD]) = Val(h, Items(h, v)[CLASS_NAME_FIELD])
         THEN "merge"
         ELSE "replace"

RECURSIVE update_config(_, _, _)
RECURSIVE UpdateLoop(_, _, _, _)
\* lines 118-131, the loop over c2.items(); ks are the keys still to come.
\* A c1 that is no dict (reached by recursion on a scalar or a list of the
\* base) fails at the first key: it has no keys() and takes no c1[k] = v.
UpdateLoop(h, c1, c2, ks) ==
    IF ks = <<>> THEN Return(h, c1)                               \* line 132
    ELSE IF ~IsDict(h, c1) THEN Raise(h)
    ELSE
      LET k == Head(ks)
          v == Items(h, c2)[k]
      IN IF IsDict(h, v)                                           \* line 119
         THEN IF k \notin Keys(h, c1)                              \* line 120
              THEN UpdateLoop(SetItem(h, c1, k, v), c1, c2, Tail(ks))   \* line 121
              ELSE LET t == MergeTest(h, Items(h, c1)[k], v) IN
                   IF t = "raise" THEN Raise(h)
                   ELSE IF t = "merge"
                   THEN LET r == update_config(h, Items(h, c1)[k], v) IN   \* line 127
                        IF r.err THEN Raise(r.h)
                        ELSE UpdateLoop(SetItem(r.h, c1, k, r.v), c1, c2, Tail(ks))
                   ELSE UpdateLoop(SetItem(h, c1, k, v), c1, c2, Tail(ks))  \* line 129
         ELSE UpdateLoop(SetItem(h, c1, k, v), c1, c2, Tail(ks))   \* line 131

update_config(h, c1, c2) ==
    LET cp == CopyBase(h, c1)
    IN UpdateLoop(cp.h, cp.v, c2, SetToSeq(Keys(h, c2)))

-----------------------------------------------------------------------------
(* RegisteredAbstractMeta.__new__, configurables.py:28-39 *)

\* The registry state as one value: R.factories, R.classes (a class is
\* its name, its base class (0: none created by this metaclass) and what
\* its get_default_config returns), R.subclass_registry (by owning class).
NoRegistry == [factories |-> EmptyFn, classes |-> <<>>, subclass_registry |-> EmptyFn]

\* x.subclass_registry as attribute lookup finds it: on the class itself or
\* on the nearest base that was given one; 0 when there is none.
RECURSIVE Owner(_, _)
Owner(R, c) ==
    IF c = 0 THEN 0
    ELSE IF c \in DOMAIN R.subclass_registry THEN c
    ELSE Owner(R, R.classes[c].base)

\* The variant that stores the class before it looks.
RegisterFactoryOverwrite(R, name, x) ==
    [R |-> [R EXCEPT !.factories = (name :> x) @@ @],
     raised |-> IF name \in DOMAIN R.factories THEN "RuntimeError" ELSE "none"]

\* lines 33-36: a registry class enters `factories` unless its name is there.
RegisterFactory(R, name, x) ==
    IF name \in DOMAIN R.factories
    THEN [R |-> R, raised |-> "RuntimeError"]
    ELSE [R |-> [R EXCEPT !.factories = (name :> x) @@ @], raised |-> "none"]

\* line 38: x.subclass_registry[name] = x, on the dict the lookup finds.
RegisterSubclass(R, name, x) ==
    LET o == Owner(R, x) IN
    IF o = 0 THEN [R |-> R, raised |-> "AttributeError"]
    ELSE [R |-> [R EXCEPT !.subclass_registry[o] = (name :> x) @@ @], raised |-> "none"]

\* The class statement `class name(base, ..., is_registry=...)`: the class
\* object x exists from line 29 on, whether or not the statement raises.
DefineClass(R, name, base, is_registry, defaults) ==
    LET x == Len(R.classes) + 1
        R1 == [R EXCEPT !.classes =
                  Append(@, [name |-> name, base |-> base, defaults |-> defaults])]
    IN IF is_registry                                              \* line 30
       THEN RegisterFactory(
                [R1 EXCEPT !.subclass_registry = (x :> EmptyFn) @@ @],  \* line 31
                name, x)
       ELSE RegisterSubclass(R1, name, x)

-----------------------------------------------------------------------------
(* fill_in_defaults, configurables.py:83-101 *)

\* Frames the interpreter allows on the stack before RecursionError.
RecursionLimit == 6

\* line 89: params = params.copy()
CopyParams(h, params) == ShallowCopy(h, params)

\* How a call ends.  exc: "KeyError" for a failed lookup of line 92 (also
\* the TypeError of a className that is no string), "RecursionError".
FillRaise(h, depth, exc) ==
    [h |-> h, v |-> Scalar("<exception>"), err |-> TRUE, exc |-> exc, depth |-> depth]
FillReturn(h, v, depth) ==
    [h |-> h, v |-> v, err |-> FALSE, exc |-> "none", depth |-> depth]

Max(a, b) == IF a >= b THEN a ELSE b

\* line 92: factories[factory_name].subclass_registry[cn]; 0 when a lookup
\* fails (factory_name is None or names no registry class, cn names no
\* subclass, cn is no string).
LookupClass(R, factory_name, cn) ==
    IF factory_name \notin DOMAIN R.factories THEN 0
    ELSE LET reg == R.subclass_registry[R.factories[factory_name]] IN
         IF IsRef(cn) \/ cn.s \notin DOMAIN reg THEN 0 ELSE reg[cn.s]

\* line 92, get_default_config(): the class's default config, built anew
\* by every call (a dict literal, or dataclass defaults, lines 73-80).
get_default_config(h, R, c) == Store(h, R.classes[c].defaults)

\* The variant of the loop that stores every default.
RECURSIVE DefaultsLoopOverwrite(_, _, _, _)
DefaultsLoopOverwrite(h, params, defaults, ks) ==
    IF ks = <<>> THEN h
    ELSE DefaultsLoopOverwrite(SetItem(h, params, Head(ks), Items(h, defaults)[Head(ks)]),
                               params, defaults, Tail(ks))

\* lines 93-95: a default enters params when its key is not there.
RECURSIVE DefaultsLoop(_, _, _, _)
DefaultsLoop(h, params, defaults, ks) ==
    IF ks = <<>> THEN h
    ELSE LET k == Head(ks) IN
         IF k \notin Keys(h, params)
         THEN DefaultsLoop(SetItem(h, params, k, Items(h, defaults)[k]),
                           params, defaults, Tail(ks))
         ELSE DefaultsLoop(h, params, defaults, Tail(ks))

\* line 98: the values the second loop descends into.
Descends(h, v) == IsDict(h, v) /\ CLASS_NAME_FIELD \in Keys(h, v)

RECURSIVE fill_in_defaults(_, _, _, _, _)
RECURSIVE FillLoop(_, _, _, _, _, _)

\* The variant of the loop that hands params, not v, to the recursive call.
FillLoopOnParams(h, R, params, ks, used, depth) ==
    IF ks = <<>> THEN FillReturn(h, params, depth)
    ELSE LET k == Head(ks)
             v == Items(h, params)[k]
         IN IF Descends(h, v)
            THEN LET r == fill_in_defaults(h, R, params, k, used + 1) IN
                 IF r.err THEN FillRaise(r.h, Max(depth, r.depth), r.exc)
                 ELSE FillLoop(SetItem(r.h, params, k, r.v), R, params, Tail(ks),
                               used, Max(depth, r.depth))
            ELSE FillLoop(h, R, params, Tail(ks), used, depth)

\* lines 97-99, the loop over params.items(); used = this call's frame,
\* depth = the deepest frame seen so far.
FillLoop(h, R, params, ks, used, depth) ==
    IF ks = <<>> THEN FillReturn(h, params, depth)                 \* line 101
    ELSE LET k == Head(ks)
             v == Items(h, params)[k]
         IN IF Descends(h, v)
            THEN LET r == fill_in_defaults(h, R, v, k, used + 1) IN   \* line 99
                 IF r.err THEN FillRaise(r.h, Max(depth, r.depth), r.exc)
                 ELSE FillLoop(SetItem(r.h, params, k, r.v), R, params, Tail(ks),
                               used, Max(depth, r.depth))
            ELSE FillLoop(h, R, params, Tail(ks), used, depth)

\* The variant that runs the loop of lines 97-99 before that of lines 90-96.
fill_in_defaults_RecurseFirst(h, R, params, factory_name, used) ==
    IF used > RecursionLimit THEN FillRaise(h, RecursionLimit, "RecursionError")
    ELSE
      LET cp == CopyParams(h, params)
          lp == FillLoop(cp.h, R, cp.v, SetToSeq(Keys(cp.h, cp.v)), used, used)
      IN IF lp.err THEN lp
         ELSE IF CLASS_NAME_FIELD \in Keys(lp.h, cp.v)
         THEN LET c == LookupClass(R, factory_name, Items(lp.h, cp.v)[CLASS_NAME_FIELD]) IN
              IF c = 0 THEN FillRaise(lp.h, lp.depth, "KeyError")
              ELSE LET df == get_default_config(lp.h, R, c)
                   IN FillReturn(DefaultsLoop(df.h, cp.v, df.v, SetToSeq(Keys(df.h, df.v))),
                                 cp.v, lp.depth)
         ELSE lp

\* `used` is the number of this call's frame, 1 for the outermost call.
fill_in_defaults(h, R, params, factory_name, used) ==
    IF used > RecursionLimit THEN FillRaise(h, RecursionLimit, "RecursionError")
    ELSE
      LET cp == CopyParams(h, params) IN
      IF CLASS_NAME_FIELD \in Keys(cp.h, cp.v)                     \* line 90
      THEN LET c == LookupClass(R, factory_name, Items(cp.h, cp.v)[CLASS_NAME_FIELD]) IN
           IF c = 0 THEN FillRaise(cp.h, used, "KeyError")
           ELSE LET df == get_default_config(cp.h, R, c)
                    h2 == DefaultsLoop(df.h, cp.v, df.v, SetToSeq(Keys(df.h, df.v)))
                IN FillLoop(h2, R, cp.v, SetToSeq(Keys(h2, cp.v)), used, used)
      ELSE FillLoop(cp.h, R, cp.v, SetToSeq(Keys(cp.h, cp.v)), used, used)

-----------------------------------------------------------------------------
(* Configurable.from_config, configurables.py:59-67 *)

\* How a from_config call ends; log: the constructor invocations made, in
\* order, each with the class from_config was called on, the document it
\* was given, the class constructed and the keyword arguments passed.
ConfigRaise(h, exc, log) == [h |-> h, err |-> TRUE, exc |-> exc, log |-> log]
ConfigReturn(h, log) == [h |-> h, err |-> FALSE, exc |-> "none", log |-> log]

\* line 63: del params[CLASS_NAME_FIELD], on the dict itself.
DelItem(h, d, k) ==
    [h EXCEPT ![d.ref].items = [x \in DOMAIN h[d.ref].items \ {k} |-> h[d.ref].items[x]]]

\* The variant of dict.update that keeps what the dict already holds.
RECURSIVE UpdateKeepExisting(_, _, _, _)
UpdateKeepExisting(h, full, params, ks) ==
    IF ks = <<>> THEN h
    ELSE LET k == Head(ks) IN
         UpdateKeepExisting(IF k \in Keys(h, full) THEN h
                            ELSE SetItem(h, full, k, Items(h, params)[k]),
                            full, params, Tail(ks))

\* line 66: full.update(params); ks are the keys of params still to come.
RECURSIVE Update(_, _, _, _)
Update(h, full, params, ks) ==
    IF ks = <<>> THEN h
    ELSE Update(SetItem(h, full, Head(ks), Items(h, params)[Head(ks)]),
                full, params, Tail(ks))

\* The parameters of the constructors of tests/test_configurables.py:
\* those without a default and those with one (dataclass fields).  A class
\* without __init__ takes none.
InitParams(name) ==
    CASE name = "Car" -> [required |-> {"Engine", "num_doors"}, optional |-> {}]
      [] name = "Truck" -> [required |-> {"Engine", "Trailer"}, optional |-> {}]
      [] name = "CombustionEngine" ->
            [required |-> {"displacement_liters", "strokes_per_cycle"}, optional |-> {}]
      [] name = "ContainerTrailer" -> [required |-> {}, optional |-> {"height", "length"}]
      [] name = "RoadTrain" -> [required |-> {}, optional |-> {"Trailer"}]
      [] OTHER -> [required |-> {}, optional |-> {}]

\* Constructors that build their engine at once (lines 40 and 59 of the tests).
BuildsEngine(name) == name \in {"Car", "Truck"}

RECURSIVE from_config(_, _, _, _, _)
\* line 32 inside the lambda, `(**params)`: the constructor of class c runs
\* with the items of `full` as keyword arguments.  TypeError when they do
\* not fit its signature; Car and Truck go on to
\* factories['Engine'].from_config(Engine).
Construct(h, R, c, full, log) ==
    LET name == R.classes[c].name
        sig == InitParams(name)
        given == Keys(h, full)
    IN IF ~(sig.required \subseteq given /\ given \subseteq sig.required \cup sig.optional)
       THEN ConfigRaise(h, "TypeError", log)
       ELSE IF BuildsEngine(name)
       THEN IF "Engine" \notin DOMAIN R.factories THEN ConfigRaise(h, "KeyError", log)
            ELSE from_config(h, R, R.factories["Engine"], Items(h, full)["Engine"], log)
       ELSE ConfigReturn(h, log)

\* line 32: x.factory, the lambda the registry class x was given; it looks
\* cname up in x.subclass_registry and calls what it finds.
factory(h, R, x, cname, full, entry, log) ==
    IF cname \notin DOMAIN R.subclass_registry[x] THEN ConfigRaise(h, "KeyError", log)
    ELSE LET c == R.subclass_registry[x][cname]
         IN Construct(h, R, c, full,
                      Append(log, entry @@ [cls |-> c, kwargs |-> Val(h, full)]))

\* cls.from_config(params).  A params that is no dict fails at line 62
\* (TypeError), one without the discriminator too (KeyError); a cls without
\* subclass_registry at line 65 (AttributeError).
from_config(h, R, cls, params, log) ==
    LET cp == deepcopy(h, params) IN                                \* line 61
    IF ~IsDict(cp.h, cp.v) THEN ConfigRaise(cp.h, "TypeError", log)
    ELSE IF CLASS_NAME_FIELD \notin Keys(cp.h, cp.v) THEN ConfigRaise(cp.h, "KeyError", log)
    ELSE
      LET cn == Items(cp.h, cp.v)[CLASS_NAME_FIELD]                 \* line 62
          h1 == DelItem(cp.h, cp.v, CLASS_NAME_FIELD)               \* line 63
          o == Owner(R, cls)
      IN IF o = 0 THEN ConfigRaise(h1, "AttributeError", log)
         ELSE IF IsRef(cn) THEN ConfigRaise(h1, "TypeError", log)
         ELSE IF cn.s \notin DOMAIN R.subclass_registry[o] THEN ConfigRaise(h1, "KeyError", log)
         ELSE
           LET df == get_default_config(h1, R, R.subclass_registry[o][cn.s])   \* line 65
               h2 == Update(df.h, df.v, cp.v, SetToSeq(Keys(df.h, cp.v)))      \* line 66
           IN factory(h2, R, o, cn.s, df.v,                                    \* line 67
                      [on |-> cls, node |-> Val(h, params)], log)

-----------------------------------------------------------------------------
(* The classes of tests/test_configurables.py and the documents tried *)

S(x) == Scalar(x)

\* tests/test_configurables.py:25-120, the class statements in order.
TestRegistry ==
    LET r1 == DefineClass(NoRegistry, "Vehicle", 0, TRUE, DictT(EmptyFn)).R
        r2 == DefineClass(r1, "Car", r1.factories["Vehicle"], FALSE,
                          DictT([num_doors |-> S("4")])).R
        r3 == DefineClass(r2, "Truck", r2.factories["Vehicle"], FALSE,
                          DictT([Trailer |-> DictT([className |-> S("ContainerTrailer")])])).R
        r4 == DefineClass(r3, "Engine", 0, TRUE, DictT(EmptyFn)).R
        r5 == DefineClass(r4, "ElectricMotor", r4.factories["Engine"], FALSE,
                          DictT(EmptyFn)).R
        r6 == DefineClass(r5, "CombustionEngine", r5.factories["Engine"], FALSE,
                          DictT([strokes_per_cycle |-> S("4")])).R
        r7 == DefineClass(r6, "Trailer", 0, TRUE, DictT(EmptyFn)).R
    IN DefineClass(r7, "ContainerTrailer", r7.factories["Trailer"], FALSE,
                   DictT([height |-> S("3"), length |-> S("10")])).R

\* The same module with one more implementation, whose default config
\* names a component of its own kind and class.
ChainRegistry ==
    DefineClass(TestRegistry, "RoadTrain", TestRegistry.factories["Trailer"], FALSE,
                DictT([Trailer |-> DictT([className |-> S("RoadTrain")])])).R

Registries == {TestRegistry, ChainRegistry}

\* Every dict whose keys are some of DOMAIN choice and whose value under k
\* is one of choice[k].
TreesOver(choice) ==
    LET all == UNION {choice[k] : k \in DOMAIN choice}
    IN {DictT(f) : f \in UNION {{g \in [K -> all] : \A k \in K : g[k] \in choice[k]} :
                                 K \in SUBSET DOMAIN choice}}

AList == ListT(<<S("a")>>)

\* Documents in the shape of car1, car2, truck1, truck2
\* (tests/test_configurables.py:123-158), complete or partial; `n` is the
\* value their numeric fields carry.
EngineDocs(n) ==
    TreesOver([className |-> {S("CombustionEngine"), S("ElectricMotor")},
               strokes_per_cycle |-> {S(n)}])
TrailerDocs(n) ==
    TreesOver([className |-> {S("ContainerTrailer"), S("RoadTrain")},
               length |-> {S(n)}])
VehicleDocs(n) ==
    TreesOver([className |-> {S("Car"), S("Truck")},
               num_doors |-> {S(n)},
               Engine |-> EngineDocs(n) \cup {AList}])
\* car1full: the document with the kind name as its top-level key.
FullDocs(nodes) == {DictT([Vehicle |-> t]) : t \in nodes}

BaseDocs == VehicleDocs("4") \cup FullDocs(VehicleDocs("4"))
OverrideDocs == VehicleDocs("2") \cup FullDocs(VehicleDocs("2"))

FillNodes ==
    TreesOver([className |-> {S("Car"), S("Truck")},
               num_doors |-> {S("2")},
               Engine |-> EngineDocs("2") \cup {AList},
               Trailer |-> TrailerDocs("5")])
None == "None"
FillCalls ==
    (FillNodes \X {"Vehicle", None}) \cup (FullDocs(FillNodes) \X {None})

-----------------------------------------------------------------------------
(* The calling program: one call, then the caller goes on with the result *)

NoCall == [fn |-> "none"]
NoRet == [v |-> S("<none>"), err |-> FALSE, exc |-> "none", depth |-> 0]
NoFirst == [v |-> S("<none>"), doc |-> S("<none>")]
NoLocals == [fn |-> "none"]
NoQueue == [tasks |-> {}]

Registry == [factories |-> factories, classes |-> classes,
             subclass_registry |-> subclass_registry]

Init ==
    /\ \E R \in Registries :
         /\ factories = R.factories
         /\ classes = R.classes
         /\ subclass_registry = R.subclass_registry
    /\ last = [stmt |-> "import"]
    /\ heap = <<>>
    /\ pc = "idle"
    /\ call = NoCall
    /\ ret = NoRet
    /\ pre = <<>>
    /\ first = NoFirst
    /\ locals = NoLocals
    /\ queue = NoQueue

\* update_config(base, override) on two documents just read.
CallUpdateConfig ==
    /\ pc = "idle"
    /\ \E b \in BaseDocs, o \in OverrideDocs :
         LET sb == Store(heap, b)
             so == Store(sb.h, o)
             r == update_config(so.h, sb.v, so.v)
         IN /\ pre' = so.h
            /\ call' = [fn |-> "update_config", a1 |-> sb.v, a2 |-> so.v]
            /\ heap' = r.h
            /\ ret' = [v |-> r.v, err |-> r.err,
                        exc |-> IF r.err THEN "error" ELSE "none", depth |-> 0]
    /\ pc' = "returned"
    /\ UNCHANGED <<factories, classes, subclass_registry, last, first, locals, queue>>

\* fill_in_defaults(params, factory_name) on a document just read.
CallFillInDefaults ==
    /\ pc = "idle"
    /\ \E c \in FillCalls :
         LET sp == Store(heap, c[1])
             r == fill_in_defaults(sp.h, Registry, sp.v, c[2], 1)
         IN /\ pre' = sp.h
            /\ call' = [fn |-> "fill_in_defaults", a1 |-> sp.v, a2 |-> c[2]]
            /\ heap' = r.h
            /\ ret' = [v |-> r.v, err |-> r.err, exc |-> r.exc, depth |-> r.depth]
    /\ pc' = "returned"
    /\ UNCHANGED <<factories, classes, subclass_registry, last, first, locals, queue>>

\* fill_in_defaults applied once more, to what it returned.
CallFillAgain ==
    /\ pc = "returned"
    /\ call.fn = "fill_in_defaults"
    /\ ~ret.err
    /\ LET r == fill_in_defaults(heap, Registry, ret.v, call.a2, 1)
       IN /\ heap' = r.h
          /\ ret' = [v |-> r.v, err |-> r.err, exc |-> r.exc, depth |-> r.depth]
    /\ first' = [v |-> ret.v, doc |-> Val(heap, ret.v)]
    /\ pc' = "refilled"
    /\ UNCHANGED <<factories, classes, subclass_registry, last, call, pre, locals, queue>>

\* Classes and documents from_config is called with: every class of the
\* module, on a vehicle or a trailer document.
ConfigCalls == (1..Len(classes)) \X (FillNodes \cup TrailerDocs("5"))

\* cls.from_config(params) on a document just read.
CallFromConfig ==
    /\ pc = "idle"
    /\ \E c \in ConfigCalls :
         LET sp == Store(heap, c[2])
             r == from_config(sp.h, Registry, c[1], sp.v, <<>>)
         IN /\ pre' = sp.h
            /\ call' = [fn |-> "from_config", a1 |-> sp.v, a2 |-> c[1]]
            /\ heap' = r.h
            /\ ret' = [v |-> S("<instance>"), err |-> r.err, exc |-> r.exc,
                        depth |-> 0, log |-> r.log]
    /\ pc' = "returned"
    /\ UNCHANGED <<factories, classes, subclass_registry, last, first, locals, queue>>

Modified == S("<modified>")

\* The caller changes the returned document in place: it stores a new
\* value under a key (or index) of a container it reaches from the result.
ModifyResult ==
    /\ pc = "returned"
    /\ ~ret.err
    /\ \E i \in Reach(heap, ret.v) : \E k \in DOMAIN heap[i].items :
         /\ heap' = SetItem(heap, Ref(i), k, Modified)
    /\ pc' = "modified"
    /\ UNCHANGED <<factories, classes, subclass_registry, last, call, ret, pre, first, locals, queue>>

Next ==
    \/ CallUpdateConfig
    \/ CallFillInDefaults
    \/ CallFillAgain
    \/ ModifyResult
    \/ CallFromConfig

Spec == Init /\ [][Next]_vars

-----------------------------------------------------------------------------
(* The importing program: class statements executed one after another *)

\* Class statements a behaviour executes.
MaxClasses == 3

ClassNames == {"Vehicle", "Engine", "Car"}

NoDefaults == DictT(EmptyFn)

\* configurables.py:6: factories = {}, and no class created yet.
InitRegistry ==
    /\ factories = NoRegistry.factories
    /\ classes = NoRegistry.classes
    /\ subclass_registry = NoRegistry.subclass_registry
    /\ last = [stmt |-> "import"]
    /\ heap = <<>>
    /\ pc = "idle"
    /\ call = NoCall
    /\ ret = NoRet
    /\ pre = <<>>
    /\ first = NoFirst
    /\ locals = NoLocals
    /\ queue = NoQueue

\* One class statement; `last` keeps what it was, how it ended and the
\* registry it found.
Execute(name, base, is_registry) ==
    LET r == DefineClass(Registry, name, base, is_registry, NoDefaults)
    IN /\ factories' = r.R.factories
       /\ classes' = r.R.classes
       /\ subclass_registry' = r.R.subclass_registry
       /\ last' = [stmt |-> "class", name |-> name, base |-> base,
                   is_registry |-> is_registry, raised |-> r.raised,
                   before |-> Registry]
       /\ UNCHANGED <<heap, pc, call, ret, pre, first, locals, queue>>

\* class name(base, metaclass=RegisteredAbstractMeta, is_registry=True)
DefineRegistryClass ==
    /\ Len(classes) < MaxClasses
    /\ \E name \in ClassNames, base \in 0..Len(classes) : Execute(name, base, TRUE)

\* class name(base): a class statement without is_registry
DefineSubclass ==
    /\ Len(classes) < MaxClasses
    /\ \E name \in ClassNames, base \in 0..Len(classes) : Execute(name, base, FALSE)

NextRegistry == DefineRegistryClass \/ DefineSubclass

SpecRegistry == InitRegistry /\ [][NextRegistry]_vars

-----------------------------------------------------------------------------
(* Documents as values: what the properties below are stated on *)

HasCN(t) == IsDictT(t) /\ CLASS_NAME_FIELD \in DOMAIN t.d
CN(t) == t.d[CLASS_NAME_FIELD]

\* Both are nodes and carry different discriminators.
Differ(bt, ot) == HasCN(bt) /\ HasCN(ot) /\ CN(bt) # CN(ot)
\* Both are nodes, and the override carries no discriminator or the base's.
Same(bt, ot) == IsDictT(bt) /\ IsDictT(ot) /\ (~HasCN(ot) \/ (HasCN(bt) /\ CN(bt) = CN(ot)))

Returned(fn) == pc = "returned" /\ call.fn = fn /\ ~ret.err
\* The arguments as they were passed, and the result as it was returned.
BaseDoc == Val(pre, call.a1)
OverrideDoc == Val(pre, call.a2)
ParamsDoc == Val(pre, call.a1)
ResultDoc == Val(heap, ret.v)

-----------------------------------------------------------------------------
(* update_config *)

\* C1: for a base with discriminator X and an override with discriminator
\* Y # X, update_config(base, override) equals override: no other field of
\* base survives.
C1_TopLevelReplaced ==
    (Returned("update_config") /\ Differ(BaseDoc, OverrideDoc))
        => ResultDoc = OverrideDoc

\* Under every key where the merge arrives with two nodes of different
\* discriminators the result is the override's node; the merge arrives at
\* the keys of the two documents and, below a key whose nodes it merges, at
\* the keys of those nodes.
RECURSIVE ReplacedWhereDiffer(_, _, _)
ReplacedWhereDiffer(b, o, r) ==
    \A k \in DOMAIN b.d \cap DOMAIN o.d :
        /\ Differ(b.d[k], o.d[k]) => (k \in DOMAIN r.d /\ r.d[k] = o.d[k])
        /\ Same(b.d[k], o.d[k]) =>
              /\ k \in DOMAIN r.d
              /\ IsDictT(r.d[k])
              /\ ReplacedWhereDiffer(b.d[k], o.d[k], r.d[k])

\* C2: for every key k of both documents where base[k] and override[k] are
\* nodes with different discriminators, update_config(base, override)[k]
\* equals override[k], at every nesting depth the merge reaches.
C2_SubtreeReplaced ==
    Returned("update_config") => ReplacedWhereDiffer(BaseDoc, OverrideDoc, ResultDoc)

\* C2 witness: two levels down, an engine of another class replaced the
\* base's engine, whose strokes_per_cycle is gone.
C2_Witness ==
    /\ Returned("update_config")
    /\ "Vehicle" \in DOMAIN BaseDoc.d \cap DOMAIN OverrideDoc.d
    /\ Same(BaseDoc.d.Vehicle, OverrideDoc.d.Vehicle)
    /\ HasCN(BaseDoc.d.Vehicle)
    /\ "Engine" \in DOMAIN BaseDoc.d.Vehicle.d \cap DOMAIN OverrideDoc.d.Vehicle.d
    /\ Differ(BaseDoc.d.Vehicle.d.Engine, OverrideDoc.d.Vehicle.d.Engine)
    /\ "strokes_per_cycle" \in DOMAIN BaseDoc.d.Vehicle.d.Engine.d
    /\ "strokes_per_cycle" \notin DOMAIN ResultDoc.d.Vehicle.d.Engine.d

\* C3, as stated: where override[k] is a node with no discriminator or with
\* base[k]'s, the result under k keeps base[k]'s discriminator, every field
\* of base[k] that override[k] does not name keeps its base value and every
\* field override[k] names takes the override value; keys of base alone
\* pass through.
C3_FieldsTakeOverrideValue ==
    Returned("update_config") =>
        /\ \A k \in DOMAIN BaseDoc.d \ DOMAIN OverrideDoc.d :
              k \in DOMAIN ResultDoc.d /\ ResultDoc.d[k] = BaseDoc.d[k]
        /\ \A k \in DOMAIN BaseDoc.d \cap DOMAIN OverrideDoc.d :
              (HasCN(BaseDoc.d[k]) /\ Same(BaseDoc.d[k], OverrideDoc.d[k])) =>
                  LET b == BaseDoc.d[k]
                      o == OverrideDoc.d[k]
                      r == ResultDoc.d[k]
                  IN /\ HasCN(r) /\ CN(r) = CN(b)
                     /\ \A f \in DOMAIN b.d \ DOMAIN o.d : f \in DOMAIN r.d /\ r.d[f] = b.d[f]
                     /\ \A f \in DOMAIN o.d : f \in DOMAIN r.d /\ r.d[f] = o.d[f]

\* The merge of two nodes: the keys of both; a key of the base alone keeps
\* its value; a key the override names takes the override's value, unless
\* both values are nodes that are merged in turn.
RECURSIVE Merged(_, _, _)
Merged(b, o, r) ==
    /\ IsDictT(r)
    /\ DOMAIN r.d = DOMAIN b.d \cup DOMAIN o.d
    /\ \A f \in DOMAIN b.d \ DOMAIN o.d : r.d[f] = b.d[f]
    /\ \A f \in DOMAIN o.d :
          IF f \in DOMAIN b.d /\ Same(b.d[f], o.d[f])
          THEN Merged(b.d[f], o.d[f], r.d[f])
          ELSE (f \in DOMAIN b.d /\ IsDictT(o.d[f]) /\ ~IsDictT(b.d[f])) \/ r.d[f] = o.d[f]

\* C3, amended: as stated, except that a field override[k] names takes the
\* override value only when that value is no node, when base[k] lacks the
\* field, or when the two nodes carry different discriminators; a node
\* with no discriminator or with the discriminator of base[k]'s field is
\* merged into that field by this same rule.
C3_MergedRecursively ==
    Returned("update_config") =>
        /\ \A k \in DOMAIN BaseDoc.d \ DOMAIN OverrideDoc.d :
              k \in DOMAIN ResultDoc.d /\ ResultDoc.d[k] = BaseDoc.d[k]
        /\ \A k \in DOMAIN BaseDoc.d \cap DOMAIN OverrideDoc.d :
              (HasCN(BaseDoc.d[k]) /\ Same(BaseDoc.d[k], OverrideDoc.d[k])) =>
                  /\ HasCN(ResultDoc.d[k]) /\ CN(ResultDoc.d[k]) = CN(BaseDoc.d[k])
                  /\ Merged(BaseDoc.d[k], OverrideDoc.d[k], ResultDoc.d[k])

\* C3 witness: the override names the vehicle's engine without a class; the
\* merged engine keeps the base's class and strokes_per_cycle, and is not
\* the override's engine.
C3_Witness ==
    /\ Returned("update_config")
    /\ "Vehicle" \in DOMAIN BaseDoc.d \cap DOMAIN OverrideDoc.d
    /\ HasCN(BaseDoc.d.Vehicle) /\ Same(BaseDoc.d.Vehicle, OverrideDoc.d.Vehicle)
    /\ "num_doors" \in DOMAIN BaseDoc.d.Vehicle.d \cap DOMAIN OverrideDoc.d.Vehicle.d
    /\ ResultDoc.d.Vehicle.d.num_doors = OverrideDoc.d.Vehicle.d.num_doors
    /\ "Engine" \in DOMAIN BaseDoc.d.Vehicle.d \cap DOMAIN OverrideDoc.d.Vehicle.d
    /\ HasCN(BaseDoc.d.Vehicle.d.Engine)
    /\ IsDictT(OverrideDoc.d.Vehicle.d.Engine) /\ ~HasCN(OverrideDoc.d.Vehicle.d.Engine)
    /\ ResultDoc.d.Vehicle.d.Engine # OverrideDoc.d.Vehicle.d.Engine
    /\ CN(ResultDoc.d.Vehicle.d.Engine) = CN(BaseDoc.d.Vehicle.d.Engine)

-----------------------------------------------------------------------------
(* The registry *)

\* The registry a class statement without is_registry writes to, as the
\* statement found it: that of the nearest base that owns one.
KindOf(stmt) == Owner(stmt.before, stmt.base)

\* C5: a class statement whose name is already registered under the same
\* kind fails with an error and leaves the kind's subclass_registry as it
\* was.
C5_DuplicateImplementationFails ==
    (/\ last.stmt = "class"
     /\ ~last.is_registry
     /\ KindOf(last) # 0
     /\ last.name \in DOMAIN last.before.subclass_registry[KindOf(last)])
        => /\ last.raised # "none"
           /\ subclass_registry[KindOf(last)] = last.before.subclass_registry[KindOf(last)]

\* C6: a registry class whose name is already a key of factories raises;
\* factories then still maps the name to the class registered first, whose
\* subclass_registry is unchanged; and no class statement ever changes the
\* entry of a kind name that is in factories.
C6_DuplicateKindFails ==
    last.stmt = "class" =>
        /\ (last.is_registry /\ last.name \in DOMAIN last.before.factories) =>
              /\ last.raised = "RuntimeError"
              /\ factories = last.before.factories
              /\ subclass_registry[factories[last.name]]
                    = last.before.subclass_registry[factories[last.name]]
        /\ \A n \in DOMAIN last.before.factories :
              n \in DOMAIN factories /\ factories[n] = last.before.factories[n]
        /\ \A n \in DOMAIN factories :
              classes[factories[n]].name = n /\ factories[n] \in DOMAIN subclass_registry

\* C6 witness: a second registry class of a registered name was refused
\* while the first one had an implementation registered.
C6_Witness ==
    /\ last.stmt = "class"
    /\ last.is_registry
    /\ last.raised = "RuntimeError"
    /\ last.before.subclass_registry[factories[last.name]] # EmptyFn

-----------------------------------------------------------------------------
(* fill_in_defaults *)

\* C4, as stated: the value of every key of the input node is the same in
\* the result.
C4_PresentKeysUnchanged ==
    Returned("fill_in_defaults") =>
        \A k \in DOMAIN ParamsDoc.d : k \in DOMAIN ResultDoc.d /\ ResultDoc.d[k] = ParamsDoc.d[k]

\* Every key of n is a key of r; its value is the same unless it is a
\* discriminated node, and then the same holds between the two nodes.
RECURSIVE KeptOrFilled(_, _)
KeptOrFilled(n, r) ==
    /\ IsDictT(r)
    /\ \A k \in DOMAIN n.d :
          /\ k \in DOMAIN r.d
          /\ IF HasCN(n.d[k]) THEN KeptOrFilled(n.d[k], r.d[k]) ELSE r.d[k] = n.d[k]

\* C4, amended: fill_in_defaults removes no key of the input node and
\* changes no value that is not a discriminated node; a value that is a
\* discriminated node is replaced by its default-filled copy, of which the
\* same holds at every depth.
C4_PresentKeysKeptOrFilled ==
    Returned("fill_in_defaults") => KeptOrFilled(ParamsDoc, ResultDoc)

\* C4 witness: a car with num_doors given keeps it (the default is "4"),
\* while its engine, given without strokes_per_cycle, comes back with it.
C4_Witness ==
    /\ Returned("fill_in_defaults")
    /\ HasCN(ParamsDoc) /\ CN(ParamsDoc) = S("Car")
    /\ "num_doors" \in DOMAIN ParamsDoc.d
    /\ ResultDoc.d.num_doors = S("2")
    /\ "Engine" \in DOMAIN ParamsDoc.d
    /\ HasCN(ParamsDoc.d.Engine)
    /\ "strokes_per_cycle" \notin DOMAIN ParamsDoc.d.Engine.d
    /\ "strokes_per_cycle" \in DOMAIN ResultDoc.d.Engine.d

\* Nesting depth of a document: 0 for a scalar, 1 for a container of
\* scalars.
RECURSIVE TreeDepth(_)
TreeDepth(t) ==
    IF IsScalarT(t) THEN 0
    ELSE LET f == IF IsDictT(t) THEN t.d ELSE t.l
             ds == {TreeDepth(f[k]) : k \in DOMAIN f}
         IN 1 + (IF ds = {} THEN 0 ELSE CHOOSE m \in ds : \A x \in ds : x <= m)

\* The components a document names: <<key, className>> of every
\* discriminated node under a key of t, and of those below such nodes.
RECURSIVE Components(_)
Components(t) ==
    LET ks == {k \in DOMAIN t.d : HasCN(t.d[k])}
    IN {<<k, CN(t.d[k])>> : k \in ks} \cup UNION {Components(t.d[k]) : k \in ks}

\* c2 is an implementation that the default config of class c names.
Names(R, c, c2) ==
    \E p \in Components(R.classes[c].defaults) : LookupClass(R, p[1], p[2]) = c2

\* The classes reached from c by following default configs, n steps at most.
RECURSIVE NamedWithin(_, _, _)
NamedWithin(R, c, n) ==
    IF n = 0 THEN {}
    ELSE LET near == {c2 \in DOMAIN R.classes : Names(R, c, c2)}
         IN near \cup UNION {NamedWithin(R, c2, n - 1) : c2 \in near}

\* No default config leads back to its own class.
Acyclic(R) ==
    \A c \in DOMAIN R.classes : c \notin NamedWithin(R, c, Len(R.classes))

\* The nesting the default configs can add to a document: for every class,
\* the depth of its default config below the top level.
RECURSIVE DefaultsNesting(_, _)
DefaultsNesting(R, n) ==
    IF n = 0 THEN 0
    ELSE (TreeDepth(R.classes[n].defaults) - 1) + DefaultsNesting(R, n - 1)

FillEnded == pc = "returned" /\ call.fn = "fill_in_defaults"

\* C7, as stated: fill_in_defaults ends without exhausting the stack under
\* every registry, and never recurses deeper than the input document is
\* nested.
C7_DepthBoundedByInput ==
    FillEnded => (ret.exc # "RecursionError" /\ ret.depth <= TreeDepth(ParamsDoc))

\* C7, amended: when no registered default config leads back, through the
\* discriminated nodes it names, to its own implementation, fill_in_defaults
\* ends without exhausting the stack, and its recursion depth is at most
\* the nesting depth of the input plus the nesting the registered default
\* configs add; it exhausts the stack only if that sum reaches the
\* interpreter's limit.
C7_DepthBoundedByInputAndDefaults ==
    (FillEnded /\ Acyclic(Registry)) =>
        LET bound == TreeDepth(ParamsDoc) + DefaultsNesting(Registry, Len(classes))
        IN /\ ret.depth <= bound
           /\ bound < RecursionLimit => ret.exc # "RecursionError"

\* C7 witness: under an acyclic registry a call returned after recursing
\* deeper than its input is nested, into a node its defaults put there.
C7_Witness ==
    /\ Returned("fill_in_defaults")
    /\ Acyclic(Registry)
    /\ ret.depth > TreeDepth(ParamsDoc)
    /\ ret.depth = TreeDepth(ParamsDoc) + DefaultsNesting(Registry, Len(classes))

\* C8: fill_in_defaults(fill_in_defaults(n, k), k) == fill_in_defaults(n, k)
\* whenever the first call returns.
C8_Idempotent ==
    pc = "refilled" => (~ret.err /\ ResultDoc = first.doc)

\* C8 witness: the second call returned, on a document whose first call
\* had put in a default node and that node's own defaults.
C8_Witness ==
    /\ pc = "refilled"
    /\ ~ret.err
    /\ "Trailer" \notin DOMAIN ParamsDoc.d
    /\ "Trailer" \in DOMAIN first.doc.d
    /\ "height" \in DOMAIN first.doc.d.Trailer.d

-----------------------------------------------------------------------------
(* Both functions: sharing with the arguments, and changes to them *)

\* The containers that existed when the call was entered: the arguments.
Before == 1..Len(pre)

\* C9: no container of a returned document is a container of an argument,
\* so no change made in place to the returned document shows in an
\* argument.
C9_ResultIsFresh ==
    /\ (pc = "returned" /\ ~ret.err) => Reach(heap, ret.v) \cap Before = {}
    /\ pc = "modified" => \A i \in Before : heap[i] = pre[i]

\* C10: when a call of update_config or fill_in_defaults has ended, with a
\* value or with an exception, every container of its arguments holds what
\* it held when the call was entered.
C10_ArgumentsUnchanged ==
    pc = "returned" => \A i \in Before : heap[i] = pre[i]

\* C10 witness: a call of fill_in_defaults that raised on a nested node
\* (a trailer class the registry does not know) after it had put the
\* default num_doors into its copy of the node.
C10_Witness ==
    /\ FillEnded
    /\ ret.exc = "KeyError"
    /\ HasCN(ParamsDoc) /\ CN(ParamsDoc) = S("Car")
    /\ "num_doors" \notin DOMAIN ParamsDoc.d
    /\ "Trailer" \in DOMAIN ParamsDoc.d
    /\ \E i \in DOMAIN heap : i \notin Before /\ "num_doors" \in DOMAIN heap[i].items

-----------------------------------------------------------------------------
(* fill_in_defaults: what the result contains *)

\* A discriminated node t resolved under `kind` holds every key of its
\* implementation's default config, and so does every discriminated node
\* under a key of t, resolved under that key.
RECURSIVE Complete(_, _, _)
Complete(R, t, kind) ==
    /\ HasCN(t) =>
          LET c == LookupClass(R, kind, CN(t))
          IN c # 0 /\ DOMAIN R.classes[c].defaults.d \subseteq DOMAIN t.d
    /\ \A k \in DOMAIN t.d : HasCN(t.d[k]) => Complete(R, t.d[k], k)

\* fill_in_defaults(t, kind) as a value, on a document of its own.
FillOf(R, t, kind) ==
    LET sp == Store(<<>>, t)
        r == fill_in_defaults(sp.h, R, sp.v, kind, 1)
    IN [err |-> r.err, doc |-> Val(r.h, r.v)]

\* C11: in the result of fill_in_defaults every discriminated node the
\* recursion reaches holds every key of the default config of its
\* implementation, looked up under the key the node sits under (under
\* factory_name for the top-level node), nodes that came in as defaults
\* included; and for a document without a discriminator,
\* fill_in_defaults({K: n}) == {K: fill_in_defaults(n, K)} for its
\* discriminated nodes n.
C11_DefaultsComplete ==
    Returned("fill_in_defaults") =>
        /\ Complete(Registry, ResultDoc, call.a2)
        /\ ~HasCN(ParamsDoc) =>
              \A k \in DOMAIN ParamsDoc.d :
                  HasCN(ParamsDoc.d[k]) =>
                      /\ ~FillOf(Registry, ParamsDoc.d[k], k).err
                      /\ ResultDoc.d[k] = FillOf(Registry, ParamsDoc.d[k], k).doc

\* C11 witness: a truck under the key Vehicle of a document without a
\* discriminator, given without a trailer, came back with the default
\* trailer and that trailer's own defaults.
C11_Witness ==
    /\ Returned("fill_in_defaults")
    /\ ~HasCN(ParamsDoc)
    /\ "Vehicle" \in DOMAIN ParamsDoc.d
    /\ HasCN(ParamsDoc.d.Vehicle) /\ CN(ParamsDoc.d.Vehicle) = S("Truck")
    /\ "Trailer" \notin DOMAIN ParamsDoc.d.Vehicle.d
    /\ CN(ResultDoc.d.Vehicle.d.Trailer) = S("ContainerTrailer")
    /\ {"height", "length"} \subseteq DOMAIN ResultDoc.d.Vehicle.d.Trailer.d

-----------------------------------------------------------------------------
(* from_config *)

\* The default config overlaid with the non-discriminator fields of node.
Overlay(defaults, node) ==
    LET given == DOMAIN node.d \ {CLASS_NAME_FIELD}
    IN DictT([k \in DOMAIN defaults.d \cup given |->
                 IF k \in given THEN node.d[k] ELSE defaults.d[k]])

\* The implementation `name` of the kind of class c; 0 when c belongs to no
\* kind or the kind has no such implementation.
Implementation(R, c, name) ==
    LET o == Owner(R, c) IN
    IF o = 0 THEN 0
    ELSE IF name \notin DOMAIN R.subclass_registry[o] THEN 0
    ELSE R.subclass_registry[o][name]

\* A from_config call on class c with document t that has a constructor to
\* invoke: t carries a discriminator naming an implementation of c's kind.
Constructible(R, c, t) ==
    /\ HasCN(t) /\ IsScalarT(CN(t))
    /\ Implementation(R, c, CN(t).s) # 0

\* C12: from_config(node) on the registry class or an implementation class
\* of a kind invokes the constructor of the implementation the kind's
\* registry holds under node's discriminator, whatever class of the kind it
\* was called on, with exactly that implementation's default config
\* overlaid with node's fields other than the discriminator (nested nodes
\* as they were given); and node is left as it was.  This holds for the
\* from_config calls the constructors make in turn.
C12_ConstructsNamedImplementation ==
    (pc = "returned" /\ call.fn = "from_config") =>
        /\ Val(heap, call.a1) = ParamsDoc
        /\ Constructible(Registry, call.a2, ParamsDoc) =>
              /\ Len(ret.log) >= 1
              /\ ret.log[1].on = call.a2
              /\ ret.log[1].node = ParamsDoc
        /\ \A i \in DOMAIN ret.log :
              LET e == ret.log[i] IN
              /\ Constructible(Registry, e.on, e.node)
              /\ e.cls = Implementation(Registry, e.on, CN(e.node).s)
              /\ \A c \in DOMAIN classes :
                    Owner(Registry, c) = Owner(Registry, e.on) =>
                        e.cls = Implementation(Registry, c, CN(e.node).s)
              /\ e.kwargs = Overlay(classes[e.cls].defaults, e.node)
              /\ CLASS_NAME_FIELD \notin DOMAIN e.kwargs.d

\* C12 witness: Car.from_config(truck2) returned; the Truck constructor was
\* invoked with the given trailer document, unfilled, in place of Truck's
\* default trailer.
C12_Witness ==
    /\ Returned("from_config")
    /\ classes[call.a2].name = "Car"
    /\ CN(ParamsDoc) = S("Truck")
    /\ "Trailer" \in DOMAIN ParamsDoc.d
    /\ ParamsDoc.d.Trailer = DictT([className |-> S("ContainerTrailer"), length |-> S("5")])
    /\ classes[ret.log[1].cls].name = "Truck"
    /\ ret.log[1].kwargs.d.Trailer = ParamsDoc.d.Trailer
    /\ Len(ret.log) = 2

-----------------------------------------------------------------------------
(* unique_suffixes, utils.py:30-51 *)

\* A string is the sequence of its characters.
MaxKeyLen == 3
\* Length of the list `keys`.
MaxKeys == 2

Chars == {"a", "b", "."}
RECURSIVE StringsUpTo(_)
StringsUpTo(n) ==
    IF n = 0 THEN {<<>>}
    ELSE LET shorter == StringsUpTo(n - 1)
         IN shorter \cup {Append(w, c) : w \in shorter, c \in Chars}
Strings == StringsUpTo(MaxKeyLen)
KeyLists == UNION {[1..n -> Strings] : n \in 0..MaxKeys}
Separators == {".", "b"}

\* k.split(sep), sep one character: the pieces between the separators,
\* empty pieces included; one empty piece for the empty string.
RECURSIVE split(_, _)
split(k, sep) ==
    IF k = <<>> THEN << <<>> >>
    ELSE LET r == split(Tail(k), sep) IN
         IF Head(k) = sep THEN << <<>> >> \o r
         ELSE << <<Head(k)>> \o Head(r) >> \o Tail(r)

\* sep.join(parts)
RECURSIVE join(_, _)
join(sep, parts) ==
    IF parts = <<>> THEN <<>>
    ELSE IF Len(parts) = 1 THEN parts[1]
    ELSE parts[1] \o <<sep>> \o join(sep, Tail(parts))

\* parts[-n:] for n >= 1: the last n elements, all of them when there are
\* fewer.
LastN(parts, n) == SubSeq(parts, Max(1, Len(parts) - n + 1), Len(parts))

\* lines 41 and 49: sep.join(k.split(sep)[-n:])
Suffix(k, sep, n) == join(sep, LastN(split(k, sep), n))

\* cc.Counter(mapping.values())
Counter(mapping) ==
    [v \in {mapping[k] : k \in DOMAIN mapping} |->
        Cardinality({k \in DOMAIN mapping : mapping[k] = v})]

\* line 44: set(suf_counter.values()) != {1}
LoopCondition(suf_counter) == {suf_counter[v] : v \in DOMAIN suf_counter} # {1}

\* unique_suffixes(keys, sep) is called: lines 41-43.  A dict comprehension
\* keeps one entry for a key listed twice.
SuffixesEnter ==
    /\ pc = "idle"
    /\ \E keys \in KeyLists, sep \in Separators :
         LET ks == {keys[i] : i \in DOMAIN keys}
             mapping == [k \in ks |-> Suffix(k, sep, 1)]
         IN locals' = [fn |-> "unique_suffixes", keys |-> keys, sep |-> sep,
                       mapping |-> mapping,
                       parts_counts |-> [k \in ks |-> 1],
                       suf_counter |-> Counter(mapping)]
    /\ pc' = "while"
    /\ UNCHANGED <<factories, classes, subclass_registry, last, heap, call, ret, pre,
                   first, queue>>

\* line 44: the test of the while loop.
SuffixesTest ==
    /\ pc = "while"
    /\ pc' = IF LoopCondition(locals.suf_counter) THEN "body" ELSE "return"
    /\ UNCHANGED <<factories, classes, subclass_registry, last, heap, call, ret, pre,
                   first, locals, queue>>

\* lines 45-50: one pass of the loop body.  Every key whose suffix is
\* duplicated gets one component more; the for loop reads each key's own
\* old suffix, so the order of the keys does not matter.
SuffixesBody ==
    /\ pc = "body"
    /\ LET duplicated == {v \in DOMAIN locals.suf_counter : locals.suf_counter[v] > 1}
           grows(k) == locals.mapping[k] \in duplicated
           parts_counts == [k \in DOMAIN locals.mapping |->
                               IF grows(k) THEN locals.parts_counts[k] + 1
                               ELSE locals.parts_counts[k]]
           mapping == [k \in DOMAIN locals.mapping |->
                          IF grows(k) THEN Suffix(k, locals.sep, parts_counts[k])
                          ELSE locals.mapping[k]]
       IN locals' = [locals EXCEPT !.parts_counts = parts_counts,
                                   !.mapping = mapping,
                                   !.suf_counter = Counter(mapping)]
    /\ pc' = "while"
    /\ UNCHANGED <<factories, classes, subclass_registry, last, heap, call, ret, pre,
                   first, queue>>

NextSuffixes ==
    \/ SuffixesEnter
    \/ SuffixesTest
    \/ SuffixesBody

\* The interpreter goes on executing a function it has entered.
SpecSuffixes ==
    /\ InitRegistry
    /\ [][NextSuffixes]_vars
    /\ WF_vars(SuffixesTest)
    /\ WF_vars(SuffixesBody)

\* What unique_suffixes is to return: a mapping defined on every key, each
\* value the sep-joined last n components of its key for some n >= 1, the
\* values pairwise distinct.
UniqueSuffixes(keys, sep, mapping) ==
    /\ DOMAIN mapping = {keys[i] : i \in DOMAIN keys}
    /\ \A k \in DOMAIN mapping :
          \E n \in 1..Len(split(k, sep)) : mapping[k] = Suffix(k, sep, n)
    /\ \A j, k \in DOMAIN mapping : mapping[j] = mapping[k] => j = k

\* C13: a call of unique_suffixes(keys, sep), on a list of any length, zero
\* included, comes to its return statement, and what it returns is defined
\* on every key, each value a sep-joined suffix of n >= 1 components of its
\* key, the values pairwise distinct.
C13_TerminatesWithUniqueSuffixes ==
    (pc = "while") ~>
        (pc = "return" /\ UniqueSuffixes(locals.keys, locals.sep, locals.mapping))

-----------------------------------------------------------------------------
(* process_queue, hyperspace_worker.py:18-32 *)

\* Tasks waiting in the queue when the worker starts.
MaxTasks == 3

\* The params of a queued run: a document single_run can fill in, and one
\* that fill_in_defaults(to_run.params) rejects (a discriminator at the top,
\* where no kind is known).
TaskParams ==
    {DictT([Vehicle |-> DictT([className |-> S("Car")])]),
     DictT([className |-> S("Car")])}

\* RunQueue.fetch_one(): one of the tasks in the queue, None (0) when there
\* is none; the task stays in the queue.
fetch_one(q) == IF q.tasks = {} THEN {0} ELSE q.tasks

\* RunQueue.remove(t): the task leaves the queue.
remove(q, t) == [q EXCEPT !.tasks = @ \ {t}]

\* How single_run(t, observer) can end.  Line 36 raises what
\* fill_in_defaults raises; past it, the experiment returns, raises an
\* Exception, or raises an exception that is no Exception
\* (KeyboardInterrupt, SystemExit).
Outcomes(R, params) ==
    LET sp == Store(<<>>, params)
        r == fill_in_defaults(sp.h, R, sp.v, None, 1)
    IN IF r.err THEN {"Exception"}
       ELSE {"return", "Exception", "BaseException"}

\* The variant of the except clause that catches nothing.
ExceptNothing(outcome) == FALSE

\* line 29: `except Exception` catches what derives from Exception.
ExceptClause(outcome) == outcome = "Exception"

\* lines 19-20: the observer and the queue are opened; the queue holds the
\* tasks other programs have put there.
WorkerStart ==
    /\ pc = "idle"
    /\ \E n \in 0..MaxTasks : \E params \in [1..n -> TaskParams] :
         queue' = [tasks |-> 1..n, params |-> params, t |-> 0, outcome |-> "none",
                   fetches |-> [i \in 1..n |-> 0], runs |-> [i \in 1..n |-> 0],
                   removes |-> [i \in 1..n |-> 0], raised |-> {}, logged |-> {},
                   fetched_since_remove |-> 0]
    /\ pc' = "fetch"
    /\ UNCHANGED <<factories, classes, subclass_registry, last, heap, call, ret, pre,
                   first, locals>>

\* lines 22-23: t = q.fetch_one() and the test for None.
WorkerFetch ==
    /\ pc = "fetch"
    /\ \E t \in fetch_one(queue) :
         IF t = 0
         THEN /\ queue' = [queue EXCEPT !.t = 0]
              /\ pc' = "sleep"
         ELSE /\ queue' = [queue EXCEPT !.t = t, !.fetches[t] = @ + 1,
                                        !.fetched_since_remove = @ + 1]
              /\ pc' = "run"
    /\ UNCHANGED <<factories, classes, subclass_registry, last, heap, call, ret, pre,
                   first, locals>>

\* lines 24-26: nothing to do; sleep, then the next pass of the loop.
WorkerSleep ==
    /\ pc = "sleep"
    /\ pc' = "fetch"
    /\ UNCHANGED <<factories, classes, subclass_registry, last, heap, call, ret, pre,
                   first, locals, queue>>

\* lines 27-29: single_run(t, observer) runs and ends; an exception the
\* except clause catches goes to line 30, everything else to the finally
\* clause.
WorkerRun ==
    /\ pc = "run"
    /\ \E outcome \in Outcomes(Registry, queue.params[queue.t]) :
         /\ queue' = [queue EXCEPT !.outcome = outcome, !.runs[queue.t] = @ + 1,
                                   !.raised = IF outcome = "return" THEN @
                                              ELSE @ \cup {queue.t}]
         /\ pc' = IF ExceptClause(outcome) THEN "except" ELSE "finally"
    /\ UNCHANGED <<factories, classes, subclass_registry, last, heap, call, ret, pre,
                   first, locals>>

\* line 30: traceback.print_exception(...)
WorkerLog ==
    /\ pc = "except"
    /\ queue' = [queue EXCEPT !.logged = @ \cup {queue.t}, !.outcome = "handled"]
    /\ pc' = "finally"
    /\ UNCHANGED <<factories, classes, subclass_registry, last, heap, call, ret, pre,
                   first, locals>>

\* line 32: q.remove(t); then the loop goes on, unless an exception is
\* still on its way out of process_queue.
WorkerRemove ==
    /\ pc = "finally"
    /\ queue' = [remove(queue, queue.t) EXCEPT !.removes[queue.t] = @ + 1,
                                               !.fetched_since_remove = 0]
    /\ pc' = IF queue.outcome \in {"return", "handled"} THEN "fetch" ELSE "stopped"
    /\ UNCHANGED <<factories, classes, subclass_registry, last, heap, call, ret, pre,
                   first, locals>>

NextWorker ==
    \/ WorkerStart
    \/ WorkerFetch
    \/ WorkerSleep
    \/ WorkerRun
    \/ WorkerLog
    \/ WorkerRemove

SpecWorker == Init /\ [][NextWorker]_vars

Worker == pc \in {"fetch", "sleep", "run", "except", "finally", "stopped"}
\* Between two tasks: before a fetch_one, or after the loop has ended.
BetweenTasks == pc \in {"fetch", "sleep", "stopped"}

\* Every task fetched has been removed once when the next fetch_one comes,
\* and no task is fetched, run or removed a second time.
RemovedOnce ==
    Worker =>
        /\ queue.fetched_since_remove <= 1
        /\ \A t \in DOMAIN queue.runs :
              /\ queue.fetches[t] <= 1 /\ queue.runs[t] <= 1 /\ queue.removes[t] <= 1
              /\ BetweenTasks => queue.removes[t] = queue.fetches[t]
              /\ queue.removes[t] = 1 => t \notin queue.tasks

\* C14 as stated: every task fetch_one returned is removed exactly once
\* before the next fetch_one, however single_run ended; whatever single_run
\* raised is logged and the worker loop goes on; a failed task is not run
\* again.
C14_AnyExceptionLoggedLoopGoesOn ==
    /\ RemovedOnce
    /\ Worker =>
          /\ pc # "stopped"
          /\ BetweenTasks => queue.raised \subseteq queue.logged

\* C14, for what `except Exception` catches: every task fetch_one returned
\* is removed exactly once before the next fetch_one, however single_run
\* ended (an exception that is no Exception included); an Exception raised
\* by single_run is logged and the loop goes on to the next fetch_one; the
\* loop ends only by an exception that is no Exception, after the task was
\* removed; a failed task is not run again.
C14_ExceptionLoggedLoopGoesOn ==
    /\ RemovedOnce
    /\ Worker =>
          /\ pc = "stopped" =>
                /\ queue.outcome = "BaseException"
                /\ queue.removes[queue.t] = 1
          /\ pc \in {"fetch", "sleep"} => queue.raised \subseteq queue.logged

\* C14 witness: a task whose params fill_in_defaults rejects was run, its
\* exception logged, the task removed, and the worker has fetched and run
\* another task since.
C14_Witness ==
    /\ pc = "finally"
    /\ \E t \in queue.logged :
          /\ t # queue.t
          /\ queue.params[t] = DictT([className |-> S("Car")])
          /\ queue.removes[t] = 1 /\ queue.runs[t] = 1
          /\ t \notin queue.tasks
    /\ queue.runs[queue.t] = 1

=============================================================================
